---- MODULE Spec2Model ----
(***************************************************************************)
(* Semantic pointer algebra and cleanup memory (scripts/semantic_algebra). *)
(*                                                                         *)
(* Real numbers are modelled in fixed point: a real r is the integer       *)
(* r * Scale, truncated toward zero.  A vector is a sequence of such       *)
(* integers.  Products of two vectors (dot products, outer products,       *)
(* convolutions) are kept exactly, in units of 1 / Scale^2.                *)
(***************************************************************************)
EXTENDS Integers, Sequences, FiniteSets, TLC

\* ------------------------------------------------------------------ bounds
\* dimensionality of the vocabulary (SemanticVocabulary.dim)
D == 3
\* fixed-point grid: the integer Scale stands for the real 1.0
Scale == 100
\* neurons of a population (NeuralEncoder.n_neurons)
N_NEURONS == 2
\* number of mutating calls (add / bind / unbind / superpose) in one run
MaxOps == 2
\* largest max_iterations handed to cleanup
MaxIterations == 3

\* the default dimensionality of a vocabulary (dimensionality: int = 50)
DefaultDim == 50
\* threads of the host that read one encoder's decoders
NThreads == 2
\* the most spikes one spike monitor records
MaxSpikes == 3
\* neurons in each of striatum_d1 and striatum_d2
NStriatal == 3

Names == {"A", "B"}
Threads == 1..NThreads
Idx == 1..D

\* ------------------------------------------------------------ arithmetic
Abs(n) == IF n < 0 THEN 0 - n ELSE n
Sign(n) == IF n < 0 THEN 0 - 1 ELSE IF n > 0 THEN 1 ELSE 0

\* floor of the square root (Newton's iteration from above)
RECURSIVE Newton(_, _)
Newton(n, x) ==
    LET y == (x + (n \div x)) \div 2
    IN IF y >= x THEN x ELSE Newton(n, y)
ISqrt(n) == IF n = 0 THEN 0 ELSE Newton(n, n)

\* a / b rounded to the nearest integer, halves away from zero (b > 0)
RDiv(a, b) == Sign(a) * ((2 * Abs(a) + b) \div (2 * b))
\* a / b truncated toward zero (b > 0)
TDiv(a, b) == Sign(a) * (Abs(a) \div b)

RECURSIVE SumTo(_, _)
SumTo(f, n) == IF n = 0 THEN 0 ELSE f[n] + SumTo(f, n - 1)

\* np.dot of two vectors of equal length
Dot(a, b) == SumTo([i \in 1..Len(a) |-> a[i] * b[i]], Len(a))
SumSq(v) == Dot(v, v)

\* the largest magnitude among the components of v
MaxAbs(v) ==
    LET mags == {Abs(v[i]) : i \in 1..Len(v)}
    IN CHOOSE m \in mags : \A n \in mags : n <= m

\* np.linalg.norm, in the units of v, rounded down.  A v of large integers is
\* first reduced, so that the sum of its squares stays a machine integer.
Norm(v) ==
    IF Len(v) = 0 THEN 0
    ELSE IF MaxAbs(v) < 20 * Scale THEN ISqrt(SumSq(v))
    ELSE LET q == MaxAbs(v) \div (10 * Scale)
         IN q * ISqrt(SumSq([i \in 1..Len(v) |-> v[i] \div q]))

\* v / np.linalg.norm(v) for a v that is not zero: component i is v[i] / |v|
\* in units of 1 / Scale; v itself may be in any unit.  A v of small integers
\* is first magnified, so that rounding its norm down loses little.
Unit(v) ==
    LET k == IF MaxAbs(v) < 10 * Scale THEN (10 * Scale) \div MaxAbs(v) ELSE 1
        w == [i \in 1..Len(v) |-> k * v[i]]
    IN [i \in 1..Len(v) |-> RDiv(w[i] * Scale, Norm(w))]

\* "if norm > 1e-10: v = v / norm": below the floor the vector is left as it is.
\* On the grid a norm below 1e-10 is a norm of zero.
NormalizeOrKeep(v) == IF Norm(v) > 0 THEN Unit(v) ELSE v

\* ------------------------------------------------------------ input sets
Zero == [i \in Idx |-> 0]
\* the unit vector along axis k
Axis(k) == [i \in Idx |-> IF i = k THEN Scale ELSE 0]
\* (1, 1, 0, ...) and (1, -1, 0, ...), not normalized
Diag == [i \in Idx |-> IF i <= 2 THEN Scale ELSE 0]
AntiDiag == [i \in Idx |-> IF i = 1 THEN Scale ELSE IF i = 2 THEN 0 - Scale ELSE 0]
\* (1, 2, 3, ...), no symmetry under index reversal
Ramp == [i \in Idx |-> i * Scale]
Neg(v) == [i \in 1..Len(v) |-> 0 - v[i]]
Twice(v) == [i \in 1..Len(v) |-> 2 * v[i]]

\* vectors a caller supplies to add(): unit, non-unit, zero, and of a wrong length
TooShort == [i \in 1..(D - 1) |-> Scale]
TooLong == [i \in 1..(D + 1) |-> Scale]
AddVectors == {Zero, Twice(Axis(2)), Ramp, TooShort, TooLong}

\* vectors of the default dimensionality: all components equal, components
\* of alternating sign, one axis, and one without such a pattern, all unit
BigIdx == 1..DefaultDim
BigConst == Unit([i \in BigIdx |-> Scale])
BigAlternating == Unit([i \in BigIdx |-> IF i % 2 = 0 THEN Scale ELSE 0 - Scale])
BigAxis == [i \in BigIdx |-> IF i = 1 THEN Scale ELSE 0]
BigMixed == Unit([i \in BigIdx |-> (((i * i) % 7) - 3) * Scale])

\* vectors handed to the functions of the module: of dimension D (zero, unit,
\* not unit), of a wrong length, and of the default dimensionality
AlgebraVectors ==
    {Zero, Axis(1), Unit(Diag), Unit(Ramp), Twice(Axis(1)), Neg(Axis(2)), TooShort,
     BigConst, BigAlternating, BigAxis, BigMixed}

\* what np.random.randn(dim) / norm can return: some unit vectors
RandomUnit == {Unit(Ramp), Unit(AntiDiag)}

\* -------------------------------------------------- core algebra (pure)
\* the convolution as it would be with the second spectrum conjugated
ConvRaw_Conjugated(a, b) ==
    [k \in 1..Len(a) |->
        SumTo([j \in 1..Len(a) |-> a[j] * b[((j - k) % Len(a)) + 1]], Len(a))]

\* irfft(rfft(a) * rfft(b), n): (a conv b)[k] = sum_j a[j] * b[(k - j) mod n],
\* indices from 0; exact, in units of 1 / Scale^2
ConvRaw(a, b) ==
    [k \in 1..Len(a) |->
        SumTo([j \in 1..Len(a) |-> a[j] * b[((k - j) % Len(a)) + 1]], Len(a))]

\* irfft(rfft(c) * conj(rfft(a)), n): (c corr a)[k] = sum_j c[j] * a[(j - k) mod n]
CorrRaw(c, a) ==
    [k \in 1..Len(c) |->
        SumTo([j \in 1..Len(c) |-> c[j] * a[((j - k) % Len(c)) + 1]], Len(c))]

circular_convolution(a, b) == NormalizeOrKeep(ConvRaw(a, b))
circular_correlation(c, a) == NormalizeOrKeep(CorrRaw(c, a))

RECURSIVE VecSum(_)
VecSum(vs) ==
    IF Len(vs) = 1 THEN vs[1]
    ELSE [i \in 1..Len(vs[1]) |-> vs[1][i] + VecSum(Tail(vs))[i]]

\* superposition(*vectors) for one or more vectors of equal length
superposition(vs) == NormalizeOrKeep(VecSum(vs))

\* float(np.dot(a, b)), in units of 1 / Scale^2
cosine_similarity(a, b) == Dot(a, b)

VARIABLES
    pools,      \* the source and target NeuralEncoder of the weight generator
    vectors,    \* SemanticVocabulary.vectors: the dict, in insertion order
    cm,         \* the CleanupMemory object: [built, weights, threshold]
    snap,       \* the vocabulary contents when the CleanupMemory was constructed
    ret,        \* outcome of the last call
    nops,       \* mutating calls made so far
    computes,   \* calls of NeuralEncoder._compute_decoders made so far
    callers,    \* the threads reading the decoders property: [pc, local, got]
    sp,         \* server.py: the global sp is a SemanticPointer (not None)
    sent,       \* messages the handler sent while handling the command in ret
    network,    \* server.py: the globals NUM, NETWORK_MODE, N_exc, N_inh
    sim,        \* the spike monitors made so far, the global sm and brain_loop
    bg          \* BasalGangliaActionSelection: action_pools and the I_input arrays

\* the variables of the server and of the basal ganglia beyond sent
serverVars == <<sp, network, sim>>

vars == <<pools, vectors, cm, snap, ret, nops, computes, callers, sent, serverVars, bg>>

\* ------------------------------------------------- outcome of a call
\* The call made last and what came of it.  op, name (the name the call stores
\* under or looks up), names (the operand names), arg (the vector handed in) and
\* maxit are the call's arguments; err is "" on success and otherwise the class
\* of the exception raised; val, num, match, traj and mat are what was returned,
\* and transform is the D x D matrix a weight generator built on the way.  args
\* is the tuple of vectors handed to a function of the module; alias says that
\* the matrix returned is the callee's own array and not a copy of it.
Call(op, name, names, arg) ==
    [op |-> op, name |-> name, names |-> names, arg |-> arg, args |-> <<>>,
     maxit |-> 0, flag |-> FALSE, err |-> "", val |-> <<>>, num |-> 0, match |-> "",
     traj |-> <<>>, mat |-> <<>>, transform |-> <<>>, alias |-> FALSE]
Raise(call, err) == [call EXCEPT !.err = err]
ReturnVec(call, val) == [call EXCEPT !.val = val]
ReturnNum(call, num) == [call EXCEPT !.num = num]

\* ------------------------------------------------- calls of the functions
\* a call of a function of the module on the tuple of vectors args
FunctionCall(op, args) == [Call(op, "", <<>>, <<>>) EXCEPT !.args = args]

\* circular_convolution(a, b), with its check of the lengths
call_circular_convolution(a, b) ==
    LET call == FunctionCall("circular_convolution", <<a, b>>)
    IN IF Len(a) # Len(b) THEN Raise(call, "DimensionMismatch")
       ELSE ReturnVec(call, circular_convolution(a, b))

\* circular_correlation(c, a), with its check of the lengths
call_circular_correlation(c, a) ==
    LET call == FunctionCall("circular_correlation", <<c, a>>)
    IN IF Len(c) # Len(a) THEN Raise(call, "DimensionMismatch")
       ELSE ReturnVec(call, circular_correlation(c, a))

\* superposition(*vectors), with its checks: at least one vector, and every
\* vector as long as the first
call_superposition(vs) ==
    LET call == FunctionCall("superposition", vs)
    IN IF Len(vs) = 0 THEN Raise(call, "InvalidConfiguration")
       ELSE IF \E i \in 2..Len(vs) : Len(vs[i]) # Len(vs[1])
       THEN Raise(call, "DimensionMismatch")
       ELSE ReturnVec(call, superposition(vs))

\* cosine_similarity(a, b), with its check of the lengths
call_cosine_similarity(a, b) ==
    LET call == FunctionCall("cosine_similarity", <<a, b>>)
    IN IF Len(a) # Len(b) THEN Raise(call, "DimensionMismatch")
       ELSE ReturnNum(call, cosine_similarity(a, b))

\* ------------------------------------------------- SemanticVocabulary
\* SemanticVocabulary.__init__: the outcome of SemanticVocabulary(dimensionality);
\* on success val is the new object's empty dict and num its dim
vocabulary_init(dimensionality) ==
    LET call == Call("SemanticVocabulary", "", <<>>, <<dimensionality>>)
    IN IF dimensionality < 2 THEN Raise(call, "InvalidConfiguration")
       ELSE ReturnNum(call, dimensionality)

\* name in self.vectors
Has(vs, name) == \E i \in 1..Len(vs) : vs[i].name = name
\* self.vectors[name], for a name that is present
Lookup(vs, name) == vs[CHOOSE i \in 1..Len(vs) : vs[i].name = name].vec
\* self.vectors[name] = vec: a dict assignment keeps the place of a key that is
\* already there and appends a new one
Assign(vs, name, vec) ==
    IF Has(vs, name)
    THEN [i \in 1..Len(vs) |->
            IF vs[i].name = name THEN [name |-> name, vec |-> vec] ELSE vs[i]]
    ELSE Append(vs, [name |-> name, vec |-> vec])
KeysOf(vs) == {vs[i].name : i \in 1..Len(vs)}

\* add as it would be if it checked the length of the vector before the name
add_DimensionFirst(vs, name, vector, rnd) ==
    LET call == Call("add", name, <<>>, vector) IN
    IF vector # <<>> /\ Len(vector) # D
    THEN [vectors |-> vs, ret |-> Raise(call, "DimensionMismatch")]
    ELSE IF Has(vs, name)
    THEN [vectors |-> vs, ret |-> Raise(call, "AlreadyExists")]
    ELSE IF vector = <<>>
    THEN [vectors |-> Assign(vs, name, rnd), ret |-> ReturnVec(call, rnd)]
    ELSE [vectors |-> Assign(vs, name, NormalizeOrKeep(vector)),
          ret |-> ReturnVec(call, NormalizeOrKeep(vector))]

\* add as it would be if it stored a supplied vector as it came
add_NoNormalize(vs, name, vector, rnd) ==
    LET call == Call("add", name, <<>>, vector) IN
    IF Has(vs, name)
    THEN [vectors |-> vs, ret |-> Raise(call, "AlreadyExists")]
    ELSE IF vector = <<>>
    THEN [vectors |-> Assign(vs, name, rnd), ret |-> ReturnVec(call, rnd)]
    ELSE IF Len(vector) # D
    THEN [vectors |-> vs, ret |-> Raise(call, "DimensionMismatch")]
    ELSE [vectors |-> Assign(vs, name, vector), ret |-> ReturnVec(call, vector)]

\* SemanticVocabulary.add: the outcome [vectors, ret] of add(name, vector).
\* vector = <<>> stands for vector=None, and rnd is the random unit vector
\* drawn in that case.
add(vs, name, vector, rnd) ==
    LET call == Call("add", name, <<>>, vector) IN
    IF Has(vs, name)
    THEN [vectors |-> vs, ret |-> Raise(call, "AlreadyExists")]
    ELSE IF vector = <<>>
    THEN [vectors |-> Assign(vs, name, rnd), ret |-> ReturnVec(call, rnd)]
    ELSE IF Len(vector) # D
    THEN [vectors |-> vs, ret |-> Raise(call, "DimensionMismatch")]
    ELSE [vectors |-> Assign(vs, name, NormalizeOrKeep(vector)),
          ret |-> ReturnVec(call, NormalizeOrKeep(vector))]

\* SemanticVocabulary.get
get(vs, name) ==
    LET call == Call("get", name, <<>>, <<>>) IN
    IF ~Has(vs, name) THEN Raise(call, "NotFound")
    ELSE ReturnVec(call, Lookup(vs, name))

\* bind as it would be if it reserved result_name before looking up name_b
bind_StoreBeforeLookup(vs, name_a, name_b, result_name) ==
    LET call == Call("bind", result_name, <<name_a, name_b>>, <<>>) IN
    IF ~Has(vs, name_a)
    THEN [vectors |-> vs, ret |-> Raise(call, "NotFound")]
    ELSE IF ~Has(vs, name_b)
    THEN [vectors |-> Assign(vs, result_name, Lookup(vs, name_a)),
          ret |-> Raise(call, "NotFound")]
    ELSE LET result == circular_convolution(Lookup(vs, name_a), Lookup(vs, name_b))
         IN [vectors |-> Assign(vs, result_name, result),
             ret |-> ReturnVec(call, result)]

\* SemanticVocabulary.bind
bind(vs, name_a, name_b, result_name) ==
    LET call == Call("bind", result_name, <<name_a, name_b>>, <<>>) IN
    IF ~Has(vs, name_a) \/ ~Has(vs, name_b)
    THEN [vectors |-> vs, ret |-> Raise(call, "NotFound")]
    ELSE LET result == circular_convolution(Lookup(vs, name_a), Lookup(vs, name_b))
         IN [vectors |-> Assign(vs, result_name, result),
             ret |-> ReturnVec(call, result)]

\* unbind as it would be if it took the bound entry out of the vocabulary
\* (self.vectors.pop(bound_name))
unbind_PopsBound(vs, bound_name, key_name, result_name) ==
    LET call == Call("unbind", result_name, <<bound_name, key_name>>, <<>>) IN
    IF ~Has(vs, bound_name) \/ ~Has(vs, key_name)
    THEN [vectors |-> vs, ret |-> Raise(call, "NotFound")]
    ELSE LET result == circular_correlation(Lookup(vs, bound_name), Lookup(vs, key_name))
             Kept(entry) == entry.name # bound_name
         IN [vectors |-> Assign(SelectSeq(vs, Kept), result_name, result),
             ret |-> ReturnVec(call, result)]

\* SemanticVocabulary.unbind
unbind(vs, bound_name, key_name, result_name) ==
    LET call == Call("unbind", result_name, <<bound_name, key_name>>, <<>>) IN
    IF ~Has(vs, bound_name) \/ ~Has(vs, key_name)
    THEN [vectors |-> vs, ret |-> Raise(call, "NotFound")]
    ELSE LET result == circular_correlation(Lookup(vs, bound_name), Lookup(vs, key_name))
         IN [vectors |-> Assign(vs, result_name, result),
             ret |-> ReturnVec(call, result)]

\* SemanticVocabulary.superpose: names is the tuple *names
superpose(vs, names, result_name) ==
    LET call == Call("superpose", result_name, names, <<>>) IN
    IF \E i \in 1..Len(names) : ~Has(vs, names[i])
    THEN [vectors |-> vs, ret |-> Raise(call, "NotFound")]
    ELSE IF Len(names) = 0
    THEN [vectors |-> vs, ret |-> Raise(call, "InvalidConfiguration")]
    ELSE LET result == superposition([i \in 1..Len(names) |-> Lookup(vs, names[i])])
         IN [vectors |-> Assign(vs, result_name, result),
             ret |-> ReturnVec(call, result)]

\* SemanticVocabulary.similarity
similarity(vs, name_a, name_b) ==
    LET call == Call("similarity", "", <<name_a, name_b>>, <<>>) IN
    IF ~Has(vs, name_a) \/ ~Has(vs, name_b) THEN Raise(call, "NotFound")
    ELSE ReturnNum(call, cosine_similarity(Lookup(vs, name_a), Lookup(vs, name_b)))

\* SemanticVocabulary.__contains__
contains(vs, name) == [Call("contains", name, <<>>, <<>>) EXCEPT !.flag = Has(vs, name)]

\* SemanticVocabulary.__len__
vocabulary_len(vs) == ReturnNum(Call("len", "", <<>>, <<>>), Len(vs))

\* ------------------------------------------------- CleanupMemory
\* a vector all of whose components are NaN (it has D components)
NaNVec == <<>>
Sub(a, b) == [i \in 1..Len(a) |-> a[i] - b[i]]
\* W @ x for a matrix W given by its rows
MatVec(W, x) == [i \in 1..Len(W) |-> Dot(W[i], x)]

\* the weights as they would be without np.fill_diagonal(W, 0)
compute_hopfield_weights_KeepDiagonal(vs) ==
    [i \in Idx |-> [j \in Idx |->
        SumTo([n \in 1..Len(vs) |-> vs[n].vec[i] * vs[n].vec[j]], Len(vs))]]

\* CleanupMemory._compute_hopfield_weights: np.zeros, += np.outer(v, v) for each
\* vocabulary vector in turn, np.fill_diagonal(W, 0); in units of 1 / Scale^2
RECURSIVE SumOuter(_, _, _, _)
SumOuter(vs, n, i, j) ==
    IF n = 0 THEN 0 ELSE vs[n].vec[i] * vs[n].vec[j] + SumOuter(vs, n - 1, i, j)
compute_hopfield_weights(vs) ==
    [i \in Idx |-> [j \in Idx |-> IF i = j THEN 0 ELSE SumOuter(vs, Len(vs), i, j)]]

\* np.tanh of one number: z is in units of 1 / Scale and so is the result.
\* tanh(z) is z (27 + z^2) / (27 + 9 z^2) up to 3 and 1 beyond (Pade [3/2])
Tanh(z) ==
    IF Abs(z) >= 3 * Scale THEN Sign(z) * Scale
    ELSE RDiv(z * (27 * Scale * Scale + z * z), 27 * Scale * Scale + 9 * z * z)

\* noisy_vector / np.linalg.norm(noisy_vector): 0 / 0 is NaN in every component
DivideByNorm(v) == IF Norm(v) = 0 THEN NaNVec ELSE Unit(v)

\* one pass of the loop body of cleanup up to the convergence test: x_new
settle_step(W, noisy_vector, x) ==
    IF x = NaNVec THEN DivideByNorm(noisy_vector)
    ELSE LET wx == MatVec(W, x)
             x_new == [i \in Idx |-> Tanh(TDiv(wx[i], Scale * Scale))]
         IN IF Norm(x_new) > 0 THEN Unit(x_new) ELSE DivideByNorm(noisy_vector)

\* change = np.linalg.norm(x_new - x); change < self.threshold.  A NaN change
\* is below nothing.
converged(threshold, x_new, x) ==
    /\ x_new # NaNVec
    /\ x # NaNVec
    /\ Norm(Sub(x_new, x)) < threshold

\* the loop as it would be if the first pass were never tested for convergence
RECURSIVE settle_SkipFirstTest(_, _, _, _, _, _, _)
settle_SkipFirstTest(W, threshold, noisy_vector, max_iterations, iteration, x, trajectory) ==
    IF iteration >= max_iterations
    THEN [val |-> x, traj |-> trajectory, num |-> max_iterations]
    ELSE LET x_new == settle_step(W, noisy_vector, x)
             traj == Append(trajectory, x_new)
         IN IF iteration > 0 /\ converged(threshold, x_new, x)
            THEN [val |-> x_new, traj |-> traj, num |-> iteration + 1]
            ELSE settle_SkipFirstTest(W, threshold, noisy_vector, max_iterations,
                                      iteration + 1, x_new, traj)

\* the loop as it would be with range(max_iterations + 1)
RECURSIVE settle_ExtraPass(_, _, _, _, _, _, _)
settle_ExtraPass(W, threshold, noisy_vector, max_iterations, iteration, x, trajectory) ==
    IF iteration > max_iterations
    THEN [val |-> x, traj |-> trajectory, num |-> max_iterations]
    ELSE LET x_new == settle_step(W, noisy_vector, x)
             traj == Append(trajectory, x_new)
         IN IF converged(threshold, x_new, x)
            THEN [val |-> x_new, traj |-> traj, num |-> iteration + 1]
            ELSE settle_ExtraPass(W, threshold, noisy_vector, max_iterations,
                                  iteration + 1, x_new, traj)

\* the for loop of cleanup from pass `iteration` (from 0) on, x being the
\* current state and trajectory the list so far: [val, traj, num]
RECURSIVE settle(_, _, _, _, _, _, _)
settle(W, threshold, noisy_vector, max_iterations, iteration, x, trajectory) ==
    IF iteration >= max_iterations
    THEN [val |-> x, traj |-> trajectory, num |-> max_iterations]
    ELSE LET x_new == settle_step(W, noisy_vector, x)
             traj == Append(trajectory, x_new)
         IN IF converged(threshold, x_new, x)
            THEN [val |-> x_new, traj |-> traj, num |-> iteration + 1]
            ELSE settle(W, threshold, noisy_vector, max_iterations,
                        iteration + 1, x_new, traj)

\* cleanup as it would be if the trajectory started empty
\* (trajectory = [] whatever return_trajectory is)
cleanup_NoInitialPoint(c, noisy_vector, max_iterations, return_trajectory) ==
    LET call == [Call("cleanup", "", <<>>, noisy_vector) EXCEPT
                    !.maxit = max_iterations, !.flag = return_trajectory]
    IN IF Len(noisy_vector) # D THEN Raise(call, "DimensionMismatch")
       ELSE LET r == settle(c.weights, c.threshold, noisy_vector, max_iterations,
                            0, noisy_vector, <<>>)
            IN IF return_trajectory
               THEN [call EXCEPT !.val = r.val, !.traj = r.traj, !.num = r.num]
               ELSE [call EXCEPT !.val = r.val]

\* CleanupMemory.cleanup on the memory c = [built, weights, threshold]
cleanup(c, noisy_vector, max_iterations, return_trajectory) ==
    LET call == [Call("cleanup", "", <<>>, noisy_vector) EXCEPT
                    !.maxit = max_iterations, !.flag = return_trajectory]
    IN IF Len(noisy_vector) # D THEN Raise(call, "DimensionMismatch")
       ELSE LET r == settle(c.weights, c.threshold, noisy_vector, max_iterations,
                            0, noisy_vector, <<noisy_vector>>)
            IN IF return_trajectory
               THEN [call EXCEPT !.val = r.val, !.traj = r.traj, !.num = r.num]
               ELSE [call EXCEPT !.val = r.val]

\* the scan of find_nearest_match over entries k..Len(vs) of the vocabulary,
\* the best so far being best_name (None is "") with best_similarity
RECURSIVE nearest_scan(_, _, _, _, _)
nearest_scan(vs, vector, k, best_name, best_similarity) ==
    IF k > Len(vs) THEN [match |-> best_name, num |-> best_similarity]
    ELSE LET s == cosine_similarity(vector, vs[k].vec)
         IN IF vector # NaNVec /\ vs[k].vec # NaNVec /\ s > best_similarity
            THEN nearest_scan(vs, vector, k + 1, vs[k].name, s)
            ELSE nearest_scan(vs, vector, k + 1, best_name, best_similarity)

\* CleanupMemory.find_nearest_match: vs is self.vocab.vectors as it is now
find_nearest_match(vs, vector) ==
    LET call == Call("find_nearest_match", "", <<>>, vector)
    IN IF vector # NaNVec /\ Len(vector) # D THEN Raise(call, "DimensionMismatch")
       ELSE LET r == nearest_scan(vs, vector, 1, "", 0 - Scale * Scale)
            IN [call EXCEPT !.match = r.match, !.num = r.num]

\* get_weights as it would be if the matrix followed the vocabulary (recomputed
\* from self.vocab at each call)
get_weights_FollowsVocabulary(c) ==
    [Call("get_weights", "", <<>>, <<>>) EXCEPT !.mat = compute_hopfield_weights(vectors)]

\* get_weights as it would be if it returned self.weights itself
get_weights_ReturnsReference(c) ==
    [Call("get_weights", "", <<>>, <<>>) EXCEPT !.mat = c.weights, !.alias = TRUE]

\* CleanupMemory.get_weights: self.weights.copy()
get_weights(c) ==
    [Call("get_weights", "", <<>>, <<>>) EXCEPT !.mat = c.weights, !.alias = FALSE]

\* the default of the threshold argument (0.001), on the grid the smallest
\* threshold above zero
DefaultThreshold == 1

\* CleanupMemory.__init__ as it would be without the check of the threshold
cleanup_init_AnyThreshold(vs, threshold) ==
    LET call == Call("CleanupMemory", "", <<>>, <<threshold>>)
    IN IF Len(vs) = 0
       THEN [cm |-> [built |-> FALSE, weights |-> <<>>, threshold |-> 0],
             ret |-> Raise(call, "InvalidConfiguration")]
       ELSE [cm |-> [built |-> TRUE, weights |-> compute_hopfield_weights(vs),
                     threshold |-> threshold],
             ret |-> call]

\* CleanupMemory.__init__: the outcome [cm, ret] of CleanupMemory(vocabulary,
\* threshold), cm being the object if one was made
NoCleanup == [built |-> FALSE, weights |-> <<>>, threshold |-> 0]
cleanup_init(vs, threshold) ==
    LET call == Call("CleanupMemory", "", <<>>, <<threshold>>)
    IN IF Len(vs) = 0 \/ threshold <= 0
       THEN [cm |-> NoCleanup, ret |-> Raise(call, "InvalidConfiguration")]
       ELSE [cm |-> [built |-> TRUE, weights |-> compute_hopfield_weights(vs),
                     threshold |-> threshold],
             ret |-> call]

\* ------------------------------------------------- NeuralEncoder
\* A @ B for matrices given by their rows
MatMul(A, B) ==
    [i \in 1..Len(A) |->
        [j \in 1..Len(B[1]) |->
            SumTo([k \in 1..Len(B) |-> A[i][k] * B[k][j]], Len(B))]]
Transpose(A) == [j \in 1..Len(A[1]) |-> [i \in 1..Len(A) |-> A[i][j]]]

\* NeuralEncoder.__init__: n_neurons unit rows of length dim, decoders not yet
\* computed (None is <<>>); rows is what np.random.randn gave, normalized
NeuralEncoder(rows) ==
    [n_neurons |-> Len(rows), dim |-> Len(rows[1]), encoders |-> rows,
     decoders |-> <<>>]

\* the property as it would be without the cache (_compute_decoders at every
\* access, nothing kept)
decoders_NoCache(e, computed) == [enc |-> e, mat |-> computed, calls |-> 1]

\* NeuralEncoder.decoders: the encoder after the access, the matrix it returns
\* and the number of calls of _compute_decoders it made; computed is what
\* _compute_decoders returns if it is called
decoders(e, computed) ==
    IF e.decoders = <<>>
    THEN [enc |-> [e EXCEPT !.decoders = computed], mat |-> computed, calls |-> 1]
    ELSE [enc |-> e, mat |-> e.decoders, calls |-> 0]

\* NeuralEncoder.__init__: the outcome of NeuralEncoder(n_neurons,
\* sp_dimensionality), rows being what np.random.randn gives after the rows are
\* normalized; on success mat is the new object's encoders
encoder_init(n_neurons, sp_dimensionality, rows) ==
    LET call == Call("NeuralEncoder", "", <<>>, <<n_neurons, sp_dimensionality>>)
    IN IF n_neurons < 1 THEN Raise(call, "InvalidConfiguration")
       ELSE IF sp_dimensionality < 2 THEN Raise(call, "InvalidConfiguration")
       ELSE [call EXCEPT !.mat = NeuralEncoder(rows).encoders]

\* NeuralEncoder.encode: np.maximum(0, gain * (encoders @ sp) + bias), in units
\* of 1 / Scale as gain and bias are
encode(e, semantic_pointer, gain, bias) ==
    LET call == Call("encode", "", <<>>, semantic_pointer)
    IN IF Len(semantic_pointer) # e.dim THEN Raise(call, "DimensionMismatch")
       ELSE ReturnVec(call,
                [n \in 1..e.n_neurons |->
                    LET rate == TDiv(gain * Dot(e.encoders[n], semantic_pointer),
                                     Scale * Scale) + bias
                    IN IF rate > 0 THEN rate ELSE 0])

\* decode as it would be if it read the decoders before it checked the length
decode_ReadsFirst(e, firing_rates, computed) ==
    LET call == Call("decode", "", <<>>, firing_rates)
        dec == decoders(e, computed)
    IN IF Len(firing_rates) # e.n_neurons
       THEN [enc |-> dec.enc, ret |-> Raise(call, "DimensionMismatch"),
             calls |-> dec.calls]
       ELSE LET recovered ==
                    [i \in 1..e.dim |-> TDiv(Dot(dec.mat[i], firing_rates), Scale)]
            IN [enc |-> dec.enc, ret |-> ReturnVec(call, NormalizeOrKeep(recovered)),
                calls |-> dec.calls]

\* NeuralEncoder.decode: the encoder after the call, the outcome and the number
\* of calls of _compute_decoders; decoders @ firing_rates, normalized
decode(e, firing_rates, computed) ==
    LET call == Call("decode", "", <<>>, firing_rates)
    IN IF Len(firing_rates) # e.n_neurons
       THEN [enc |-> e, ret |-> Raise(call, "DimensionMismatch"), calls |-> 0]
       ELSE LET dec == decoders(e, computed)
                recovered == [i \in 1..e.dim |-> TDiv(Dot(dec.mat[i], firing_rates), Scale)]
            IN [enc |-> dec.enc, ret |-> ReturnVec(call, NormalizeOrKeep(recovered)),
                calls |-> dec.calls]

\* what _compute_decoders can return for encoder e: a least-squares fit on
\* random samples with random noise, so one of several dim x n_neurons matrices
DecoderChoices(e) ==
    {Transpose(e.encoders),
     [i \in 1..e.dim |-> [n \in 1..e.n_neurons |-> (IF i = n THEN Scale ELSE 0) + i - n]]}

\* ------------------------------------------------- SemanticWeightGenerator
\* np.roll(vector, shift): element j moves to j + shift, indices from 0
Roll(vector, shift) ==
    [j \in 1..Len(vector) |-> vector[((j - 1 - shift) % Len(vector)) + 1]]

\* SemanticWeightGenerator._circular_conv_matrix: row i is np.roll(vector, i)
circular_conv_matrix(vector) == [i \in 1..Len(vector) |-> Roll(vector, i - 1)]

\* SemanticWeightGenerator._circular_corr_matrix:
\* reversed_vector = [vector[0]] + vector[1:][::-1]
circular_corr_matrix(vector) ==
    circular_conv_matrix(
        [j \in 1..Len(vector) |-> IF j = 1 THEN vector[1] ELSE vector[Len(vector) + 2 - j]])

\* encoders_tgt @ transform @ decoders_src, with the access to the decoders
Compose(g, call, transform, computed) ==
    LET dec == decoders(g.src, computed)
    IN [pools |-> [g EXCEPT !.src = dec.enc],
        ret |-> [call EXCEPT !.transform = transform,
                             !.mat = MatMul(MatMul(g.tgt.encoders, transform), dec.mat)],
        calls |-> dec.calls]

\* SemanticWeightGenerator.identity_weights on the generator g = [src, tgt]
identity_weights(g, computed) ==
    LET dec == decoders(g.src, computed)
    IN [pools |-> [g EXCEPT !.src = dec.enc],
        ret |-> [Call("identity_weights", "", <<>>, <<>>) EXCEPT
                    !.mat = MatMul(g.tgt.encoders, dec.mat)],
        calls |-> dec.calls]

\* SemanticWeightGenerator.binding_weights
binding_weights(g, bind_with_vector, computed) ==
    LET call == Call("binding_weights", "", <<>>, bind_with_vector)
    IN IF Len(bind_with_vector) # g.src.dim
       THEN [pools |-> g, ret |-> Raise(call, "DimensionMismatch"), calls |-> 0]
       ELSE Compose(g, call, circular_conv_matrix(bind_with_vector), computed)

\* SemanticWeightGenerator.unbinding_weights
unbinding_weights(g, unbind_vector, computed) ==
    LET call == Call("unbinding_weights", "", <<>>, unbind_vector)
    IN IF Len(unbind_vector) # g.src.dim
       THEN [pools |-> g, ret |-> Raise(call, "DimensionMismatch"), calls |-> 0]
       ELSE Compose(g, call, circular_corr_matrix(unbind_vector), computed)

\* SemanticWeightGenerator.__init__: the outcome of constructing a generator
\* over the two encoders; the call records their dimensions
SemanticWeightGenerator(encoder_src, encoder_tgt) ==
    LET call == Call("SemanticWeightGenerator", "", <<>>,
                     <<encoder_src.dim, encoder_tgt.dim>>)
    IN IF encoder_src.dim # encoder_tgt.dim THEN Raise(call, "DimensionMismatch")
       ELSE call

\* ------------------------------------------------- vocabulary actions
\* no call is in progress and the outcome of the last one has been taken
Idle == Call("idle", "", <<>>, <<>>)

\* the caller takes the outcome of its call; the next call can be made
Return ==
    /\ ret # Idle
    /\ ret' = Idle
    /\ sent' = <<>>
    /\ UNCHANGED <<pools, vectors, cm, snap, nops, computes, callers, serverVars, bg>>

\* a mutating call: the vocabulary and the outcome are those of out; calls that
\* changed the vocabulary are counted
Commit(out) ==
    /\ ret = Idle
    /\ out.vectors = vectors \/ nops < MaxOps
    /\ vectors' = out.vectors
    /\ ret' = out.ret
    /\ nops' = IF out.vectors = vectors THEN nops ELSE nops + 1
    /\ UNCHANGED <<pools, cm, snap, computes, callers, sent, serverVars, bg>>

Query(r) ==
    /\ ret = Idle
    /\ ret' = r
    /\ UNCHANGED <<pools, vectors, cm, snap, nops, computes, callers, sent, serverVars, bg>>

Add ==
    \E name \in Names, vector \in AddVectors \cup {<<>>} :
        \E rnd \in IF vector = <<>> THEN RandomUnit ELSE {Zero} :
            Commit(add(vectors, name, vector, rnd))

Get == \E name \in Names : Query(get(vectors, name))

Bind ==
    \E a \in Names, b \in Names, r \in Names : Commit(bind(vectors, a, b, r))

Unbind ==
    \E a \in Names, b \in Names, r \in Names : Commit(unbind(vectors, a, b, r))

NameTuples == {<<>>} \cup {<<a>> : a \in Names} \cup {<<a, b>> : a, b \in Names}

Superpose ==
    \E names \in NameTuples, r \in Names : Commit(superpose(vectors, names, r))

Similarity ==
    \E a \in Names, b \in Names : Query(similarity(vectors, a, b))

Contains == \E name \in Names : Query(contains(vectors, name))

Length == Query(vocabulary_len(vectors))

\* ------------------------------------------------- function actions
CircularConvolution ==
    \E a \in AlgebraVectors, b \in AlgebraVectors :
        Query(call_circular_convolution(a, b))

CircularCorrelation ==
    \E c \in AlgebraVectors, a \in AlgebraVectors :
        Query(call_circular_correlation(c, a))

SuperpositionOf ==
    \E vs \in {<<>>} \cup {<<a>> : a \in AlgebraVectors}
                    \cup {<<a, b>> : a \in AlgebraVectors, b \in AlgebraVectors} :
        Query(call_superposition(vs))

CosineSimilarity ==
    \E a \in AlgebraVectors, b \in AlgebraVectors :
        Query(call_cosine_similarity(a, b))

\* thresholds handed to CleanupMemory, in units of 1 / Scale
Thresholds == {0, 1, Scale \div 10}
\* vectors handed to cleanup and find_nearest_match: zero, unit, not unit, and
\* of a wrong length
ProbeVectors == {Zero, Unit(Diag), AntiDiag, Neg(Axis(1)), Twice(Ramp), TooShort}
\* vectors the vocabulary under a cleanup memory is filled with
ConceptVectors == {Axis(1), Axis(2), Diag}

\* add() as the owner of a cleanup memory calls it
AddConcept ==
    \E name \in Names, vector \in ConceptVectors :
        Commit(add(vectors, name, vector, Zero))

\* the one CleanupMemory of the run is constructed over the vocabulary
Construct ==
    /\ ret = Idle
    /\ ~cm.built
    /\ \E threshold \in Thresholds :
        LET out == cleanup_init(vectors, threshold)
        IN /\ cm' = out.cm
           /\ ret' = out.ret
           /\ snap' = IF out.cm.built THEN vectors ELSE snap
    /\ UNCHANGED <<pools, vectors, nops, computes, callers, sent, serverVars, bg>>

Cleanup ==
    /\ cm.built
    /\ \E v \in ProbeVectors, m \in 0..MaxIterations, rt \in BOOLEAN :
        Query(cleanup(cm, v, m, rt))

FindNearestMatch ==
    /\ cm.built
    /\ \E v \in ProbeVectors : Query(find_nearest_match(vectors, v))

GetWeights ==
    /\ cm.built
    /\ Query(get_weights(cm))

\* the caller of get_weights writes 1.0 into every entry of the first row of
\* the matrix it was given; the memory's own array changes with it if the two
\* are one array
WriteReturned ==
    /\ ret.op = "get_weights"
    /\ LET written == [ret.mat EXCEPT ![1] = [j \in 1..D |-> Scale]]
       IN /\ ret' = [ret EXCEPT !.op = "write", !.mat = written]
          /\ cm' = IF ret.alias THEN [cm EXCEPT !.weights = written] ELSE cm
    /\ UNCHANGED <<pools, vectors, snap, nops, computes, callers, sent, serverVars, bg>>

\* vectors handed to the weight generator: every vector of 0, 1 and -1, and
\* one of a wrong length
GenVectors == [Idx -> {0 - Scale, 0, Scale}]

\* a call on the weight generator or on its source encoder: the pools and the
\* outcome are those of out
Generate(out) ==
    /\ ret = Idle
    /\ pools' = out.pools
    /\ ret' = out.ret
    /\ computes' = computes + out.calls
    /\ UNCHANGED <<vectors, cm, snap, nops, callers, sent, serverVars, bg>>

IdentityWeights ==
    \E computed \in DecoderChoices(pools.src) :
        Generate(identity_weights(pools, computed))

BindingWeights ==
    \E v \in GenVectors \cup {TooShort}, computed \in DecoderChoices(pools.src) :
        Generate(binding_weights(pools, v, computed))

UnbindingWeights ==
    \E v \in GenVectors \cup {TooShort}, computed \in DecoderChoices(pools.src) :
        Generate(unbinding_weights(pools, v, computed))

\* firing rates handed to decode, one of them of a wrong length
RateVectors == [1..N_NEURONS -> {0, Scale}] \cup {[n \in 1..(N_NEURONS + 1) |-> Scale]}
\* gain and bias handed to encode
Gains == {Scale, 2 * Scale}
Biases == {0, Scale \div 2}

Encode ==
    \E pointer \in GenVectors \cup {TooShort}, gain \in Gains, bias \in Biases :
        Generate([pools |-> pools, ret |-> encode(pools.src, pointer, gain, bias),
                  calls |-> 0])

Decode ==
    \E rates \in RateVectors, computed \in DecoderChoices(pools.src) :
        LET out == decode(pools.src, rates, computed)
        IN Generate([pools |-> [pools EXCEPT !.src = out.enc], ret |-> out.ret,
                     calls |-> out.calls])

\* a read of the decoders property of the source encoder
Decoders ==
    \E computed \in DecoderChoices(pools.src) :
        LET dec == decoders(pools.src, computed)
        IN Generate([pools |-> [pools EXCEPT !.src = dec.enc],
                     ret |-> [Call("decoders", "", <<>>, <<>>) EXCEPT !.mat = dec.mat],
                     calls |-> dec.calls])

\* unit rows of one component more than the source encoder has
LongRows == [n \in 1..N_NEURONS |-> [i \in 1..(D + 1) |-> IF i = n THEN Scale ELSE 0]]

\* another generator is constructed over the source encoder and a target
\* encoder; over the run's own target it is the generator the run has
NewGenerator ==
    \E tgt \in {pools.tgt, NeuralEncoder(LongRows)} :
        Generate([pools |-> pools, ret |-> SemanticWeightGenerator(pools.src, tgt),
                  calls |-> 0])

\* ------------------------------------------------- constructors
\* the dimensionalities and neuron counts handed to the constructors
Dimensionalities == {0 - 1, 0, 1, 2, D}
NeuronCounts == {0 - 1, 0, 1, N_NEURONS}

\* SemanticVocabulary(dimensionality): another vocabulary is asked for
NewVocabulary ==
    \E dimensionality \in Dimensionalities : Query(vocabulary_init(dimensionality))

\* unit rows for n_neurons neurons of dim components (none if either is below 1)
RandomRows(n_neurons, dim) ==
    [n \in 1..n_neurons |-> [i \in 1..dim |-> IF i = ((n - 1) % dim) + 1 THEN Scale ELSE 0]]

\* NeuralEncoder(n_neurons, sp_dimensionality): another encoder is asked for
NewEncoder ==
    \E n_neurons \in NeuronCounts, dim \in Dimensionalities :
        Query(encoder_init(n_neurons, dim, RandomRows(n_neurons, dim)))

\* ------------------------------------------------- server.py: SP commands
\* The handler's view of the global sp: s = [sp, vectors, cm, snap], sp saying
\* that the global is a SemanticPointer, vectors being sp.vocab.vectors, cm
\* sp.cleanup_memory (None is NoCleanup).  A command gives an outcome: the new
\* s, the messages sent to the client and the call record, whose err is the
\* class of the exception raised while the command was handled ("" if none).
Out(s, msgs, call) ==
    [sp |-> s.sp, vectors |-> s.vectors, cm |-> s.cm, snap |-> s.snap,
     sent |-> msgs, ret |-> call]

\* "if sp is None: await ws.send({cmd: error, ...})"
NotEnabled(s, call) == Out(s, <<"error">>, call)

\* SemanticPointer.__init__: a new vocabulary, no cleanup memory
SemanticPointer == [sp |-> TRUE, vectors |-> <<>>, cm |-> NoCleanup, snap |-> <<>>]

\* cmd enableSP
enableSP(s) == Out(SemanticPointer, <<"spEnabled">>, Call("enableSP", "", <<>>, <<>>))

\* vocab.add(name, vector) with an array for vector: an array of NaN passes
\* the length check and is stored as it is
add_array(vs, name, vector) ==
    IF vector # NaNVec THEN add(vs, name, vector, Zero)
    ELSE IF Has(vs, name)
    THEN [vectors |-> vs, ret |-> Raise(Call("add", name, <<>>, vector), "AlreadyExists")]
    ELSE [vectors |-> Assign(vs, name, NaNVec), ret |-> Call("add", name, <<>>, vector)]

\* cmd spAddVector; a name of "" is a missing or empty name field, rnd the
\* random vector add() draws
spAddVector(s, name, rnd) ==
    LET call == Call("spAddVector", name, <<>>, <<>>)
    IN IF ~s.sp THEN NotEnabled(s, call)
       ELSE IF name = "" THEN Out(s, <<>>, call)
       ELSE LET out == add(s.vectors, name, <<>>, rnd)
            IN IF out.ret.err # "" THEN Out(s, <<>>, Raise(call, out.ret.err))
               ELSE Out([s EXCEPT !.vectors = out.vectors], <<"spVectorAdded">>,
                        ReturnVec(call, out.ret.val))

\* cmd spBind; "" for vectorA or vectorB is a missing field
spBind(s, a_name, b_name, result_name) ==
    LET call == Call("spBind", result_name, <<a_name, b_name>>, <<>>)
    IN IF ~s.sp THEN NotEnabled(s, call)
       ELSE LET out == bind(s.vectors, a_name, b_name, result_name)
            IN IF out.ret.err = "NotFound"
               THEN Out(s, <<"error">>, Raise(call, "NotFound"))
               ELSE Out([s EXCEPT !.vectors = out.vectors], <<"spBindComplete">>,
                        ReturnVec(call, out.ret.val))

\* cmd spUnbind
spUnbind(s, bound_name, key_name, result_name) ==
    LET call == Call("spUnbind", result_name, <<bound_name, key_name>>, <<>>)
    IN IF ~s.sp THEN NotEnabled(s, call)
       ELSE LET out == unbind(s.vectors, bound_name, key_name, result_name)
            IN IF out.ret.err = "NotFound"
               THEN Out(s, <<"error">>, Raise(call, "NotFound"))
               ELSE Out([s EXCEPT !.vectors = out.vectors], <<"spUnbindComplete">>,
                        ReturnVec(call, out.ret.val))

\* cmd spSimilarity
spSimilarity(s, a_name, b_name) ==
    LET call == Call("spSimilarity", "", <<a_name, b_name>>, <<>>)
    IN IF ~s.sp THEN NotEnabled(s, call)
       ELSE LET out == similarity(s.vectors, a_name, b_name)
            IN IF out.err = "NotFound"
               THEN Out(s, <<"error">>, Raise(call, "NotFound"))
               ELSE Out(s, <<"spSimilarity">>, ReturnNum(call, out.num))

\* cmd spListVectors without the test of sp: sp.vocab on None raises an
\* AttributeError, which the handler prints
spListVectors_NoCheck(s) ==
    LET call == Call("spListVectors", "", <<>>, <<>>)
    IN IF ~s.sp THEN Out(s, <<>>, Raise(call, "AttributeError"))
       ELSE Out(s, <<"spVectorList">>, [call EXCEPT !.num = Len(s.vectors)])

\* cmd spListVectors
spListVectors(s) ==
    LET call == Call("spListVectors", "", <<>>, <<>>)
    IN IF ~s.sp THEN NotEnabled(s, call)
       ELSE Out(s, <<"spVectorList">>, [call EXCEPT !.num = Len(s.vectors)])

\* cmd spAddNoise; noise is np.random.randn(len(vec)) * noise_level
spAddNoise(s, vector_name, result_name, noise) ==
    LET call == Call("spAddNoise", result_name, <<vector_name>>, noise)
    IN IF ~s.sp THEN NotEnabled(s, call)
       ELSE IF ~Has(s.vectors, vector_name)
       THEN Out(s, <<"error">>, Raise(call, "NotFound"))
       ELSE LET vec == Lookup(s.vectors, vector_name)
                noisy_vec == IF vec = NaNVec THEN NaNVec
                             ELSE DivideByNorm(VecSum(<<vec, noise>>))
                out == add_array(s.vectors, result_name, noisy_vec)
            IN IF out.ret.err # "" THEN Out(s, <<>>, Raise(call, out.ret.err))
               ELSE Out([s EXCEPT !.vectors = out.vectors], <<"spAddNoise">>,
                        ReturnVec(call, noisy_vec))

\* SemanticPointer.initialize_cleanup: CleanupMemory(self.vocab), with the
\* default threshold
initialize_cleanup(vs) == cleanup_init(vs, DefaultThreshold)

\* cmd spCleanup
spCleanup(s, noisy_name, result_name, max_iterations) ==
    LET call == [Call("spCleanup", result_name, <<noisy_name>>, <<>>) EXCEPT
                    !.maxit = max_iterations]
    IN IF ~s.sp THEN NotEnabled(s, call)
       ELSE IF ~Has(s.vectors, noisy_name)
       THEN Out(s, <<"error">>, Raise(call, "NotFound"))
       ELSE LET made == IF s.cm.built THEN [cm |-> s.cm, snap |-> s.snap]
                        ELSE [cm |-> initialize_cleanup(s.vectors).cm,
                              snap |-> s.vectors]
                ready == [s EXCEPT !.cm = made.cm, !.snap = made.snap]
                cleaned == cleanup(made.cm, Lookup(s.vectors, noisy_name),
                                   max_iterations, TRUE)
                out == add_array(s.vectors, result_name, cleaned.val)
                nearest == find_nearest_match(out.vectors, cleaned.val)
            IN IF out.ret.err # ""
               THEN Out(ready, <<"error">>, Raise(call, out.ret.err))
               ELSE Out([ready EXCEPT !.vectors = out.vectors], <<"spCleanup">>,
                        [call EXCEPT !.val = cleaned.val, !.num = cleaned.num,
                                     !.traj = cleaned.traj, !.match = nearest.match])

\* ------------------------------------------------- SP command actions
\* the handler handles one command: the server's state, the messages sent and
\* the outcome are those of out
Handle(out) ==
    /\ ret = Idle
    /\ out.vectors = vectors \/ nops < MaxOps
    /\ sp' = out.sp
    /\ vectors' = out.vectors
    /\ cm' = out.cm
    /\ snap' = out.snap
    /\ sent' = out.sent
    /\ ret' = out.ret
    /\ nops' = IF out.vectors = vectors THEN nops ELSE nops + 1
    /\ UNCHANGED <<pools, computes, callers, network, sim, bg>>

\* the global sp as the handler finds it
Server == [sp |-> sp, vectors |-> vectors, cm |-> cm, snap |-> snap]

\* a name field of a command: a name, or "" for a field that is missing
Fields == Names \cup {""}
\* the noise spAddNoise draws: none, and a tenth along the first axis
Noises == {Zero, [i \in Idx |-> IF i = 1 THEN Scale \div 10 ELSE 0]}

EnableSP == Handle(enableSP(Server))

SpAddVector == \E name \in Fields, rnd \in RandomUnit : Handle(spAddVector(Server, name, rnd))

SpBind == \E a \in Fields, b \in Fields, r \in Names : Handle(spBind(Server, a, b, r))

SpUnbind == \E a \in Fields, b \in Fields, r \in Names : Handle(spUnbind(Server, a, b, r))

SpSimilarity == \E a \in Fields, b \in Fields : Handle(spSimilarity(Server, a, b))

SpListVectors == Handle(spListVectors(Server))

SpAddNoise ==
    \E v \in Fields, r \in Names, noise \in Noises : Handle(spAddNoise(Server, v, r, noise))

SpCleanup ==
    \E v \in Fields, r \in Names, m \in 0..MaxIterations :
        Handle(spCleanup(Server, v, r, m))

\* ------------------------------------------------- server.py: the network
\* The globals of the network: NUM, NETWORK_MODE, N_exc, N_inh as loaded.
InitialNetwork == [NUM |-> 50, NETWORK_MODE |-> "simple", N_exc |-> 0, N_inh |-> 0]

\* The spike monitor and brain_loop.  len is the number of spikes the global
\* sm has recorded; reported[k] is the number of frames put on the queue that
\* hold spike k of sm; seen is how many spikes sm had when brain_loop last
\* sliced it; last is brain_loop's local; pc is where brain_loop stands and
\* paused is CTRL["paused"].
InitialSim ==
    [len |-> 0, reported |-> <<>>, seen |-> 0, last |-> 0, pc |-> "run",
     paused |-> FALSE]

\* get_neuron_count()
get_neuron_count(n) ==
    IF n.NETWORK_MODE = "realistic" THEN n.N_exc + n.N_inh ELSE n.NUM

\* int(NUM * 0.8) and int(NUM * 0.2): for 10 <= NUM <= 200 the truncated float
\* products are the integer quotients of 8 * NUM and 2 * NUM by 10
create_realistic_network(n) ==
    [n EXCEPT !.N_exc = (8 * n.NUM) \div 10, !.N_inh = (2 * n.NUM) \div 10]

\* what recreate_network() and create_realistic_network() do to the monitor:
\* sm is a new SpikeMonitor, with no spike recorded; brain_loop's last stays
NewMonitor(m) == [m EXCEPT !.len = 0, !.reported = <<>>, !.seen = 0]

\* a command of the network: the globals, the monitor, the messages sent and
\* the outcome after it
Command(n, m, msgs, call) ==
    /\ ret = Idle
    /\ network' = n
    /\ sim' = m
    /\ sent' = msgs
    /\ ret' = call
    /\ UNCHANGED <<pools, vectors, cm, snap, nops, computes, callers, sp, bg>>

\* cmd pause and cmd play
Pause == Command(network, [sim EXCEPT !.paused = TRUE], <<>>, Call("pause", "", <<>>, <<>>))
Play == Command(network, [sim EXCEPT !.paused = FALSE], <<>>, Call("play", "", <<>>, <<>>))

\* cmd reset, cmd setWeight and cmd setConnectionProb: recreate_network()
Recreate ==
    \E cmd \in {"reset", "setWeight", "setConnectionProb"} :
        Command(network, NewMonitor(sim), <<>>, Call(cmd, "", <<>>, <<>>))

\* the values setNetworkSize is sent
Sizes == {9, 10, 11, 50, 200, 201}

\* cmd setNetworkSize
SetNetworkSize ==
    \E new_num \in Sizes :
        LET call == ReturnNum(Call("setNetworkSize", "", <<>>, <<new_num>>), new_num)
        IN IF 10 <= new_num /\ new_num <= 200
           THEN Command([network EXCEPT !.NUM = new_num], NewMonitor(sim),
                        <<"networkSizeChanged">>, call)
           ELSE Command(network, sim, <<>>, call)

\* cmd setNetworkMode; num is the neuronCount of the message sent
SetNetworkMode ==
    \E mode \in {"simple", "realistic", "other"} :
        LET call == Call("setNetworkMode", mode, <<>>, <<>>)
            switched == [network EXCEPT !.NETWORK_MODE = mode]
            made == IF mode = "realistic" THEN create_realistic_network(switched)
                    ELSE switched
        IN IF mode \in {"simple", "realistic"}
           THEN Command(made, NewMonitor(sim), <<"networkModeChanged">>,
                        ReturnNum(call, get_neuron_count(made)))
           ELSE Command(network, sim, <<>>, call)

\* brain_loop, "net.run(dt)": the network of the moment runs and its monitor
\* records some spikes
RunNetwork ==
    /\ sim.pc = "run"
    /\ ~sim.paused
    /\ \E n \in 0..(MaxSpikes - sim.len) :
        sim' = [sim EXCEPT !.pc = "push", !.len = sim.len + n,
                           !.reported = sim.reported \o [k \in 1..n |-> 0]]
    /\ UNCHANGED <<pools, vectors, cm, snap, ret, nops, computes, callers, sent,
                   sp, network, bg>>

\* brain_loop, from get_spike_monitor() to q.put(...): the frame holds the
\* spikes range(last, len(i)) of sm, and last becomes len(i)
PushFrame ==
    /\ sim.pc = "push"
    /\ sim' = [sim EXCEPT !.pc = "run", !.last = sim.len, !.seen = sim.len,
                          !.reported = [k \in 1..sim.len |->
                              IF k > sim.last THEN sim.reported[k] + 1
                              ELSE sim.reported[k]]]
    /\ UNCHANGED <<pools, vectors, cm, snap, ret, nops, computes, callers, sent,
                   sp, network, bg>>

\* ------------------------------------------------- basal ganglia
\* BasalGangliaActionSelection: action_pools is the dict of registered actions,
\* the entry of a name holding <<d1_indices, d2_indices>>; d1 and d2 are the
\* I_input arrays of striatum_d1 and striatum_d2, indexed from 0, in units of
\* 1 / Scale.
InitialBasalGanglia ==
    [action_pools |-> <<>>,
     d1 |-> [i \in 0..(NStriatal - 1) |-> 0],
     d2 |-> [i \in 0..(NStriatal - 1) |-> 0]]

\* register_action: self.action_pools[action_name] = {...}
register_action(b, action_name, d1_indices, d2_indices) ==
    [bg |-> [b EXCEPT !.action_pools =
                 Assign(b.action_pools, action_name, <<d1_indices, d2_indices>>)],
     ret |-> Call("register_action", action_name, <<>>, <<>>)]

\* "for idx in indices: group.I_input[idx] = value", from the k-th index on:
\* an index outside the group raises IndexError and ends the loop
RECURSIVE assign_each(_, _, _, _)
assign_each(I_input, indices, k, value) ==
    IF k > Len(indices) THEN [I_input |-> I_input, err |-> ""]
    ELSE IF indices[k] \notin DOMAIN I_input
    THEN [I_input |-> I_input, err |-> "IndexError"]
    ELSE assign_each([I_input EXCEPT ![indices[k]] = value], indices, k + 1, value)

\* set_action_utility as it would be if it set the input of the whole of
\* striatum_d1 and striatum_d2
set_action_utility_WholeGroup(b, action_name, utility) ==
    LET call == Call("set_action_utility", action_name, <<>>, <<utility>>)
    IN IF ~Has(b.action_pools, action_name)
       THEN [bg |-> b, ret |-> Raise(call, "NotFound")]
       ELSE [bg |-> [b EXCEPT !.d1 = [i \in DOMAIN b.d1 |-> RDiv(utility * 5, 10)],
                              !.d2 = [i \in DOMAIN b.d2 |->
                                          RDiv((Scale - utility) * 3, 10)]],
             ret |-> call]

\* set_action_utility: utility * 0.5 to the D1 indices of the action, then
\* (1.0 - utility) * 0.3 to its D2 indices
set_action_utility(b, action_name, utility) ==
    LET call == Call("set_action_utility", action_name, <<>>, <<utility>>)
    IN IF ~Has(b.action_pools, action_name)
       THEN [bg |-> b, ret |-> Raise(call, "NotFound")]
       ELSE LET pool == Lookup(b.action_pools, action_name)
                direct == assign_each(b.d1, pool[1], 1, RDiv(utility * 5, 10))
                indirect == assign_each(b.d2, pool[2], 1,
                                        RDiv((Scale - utility) * 3, 10))
            IN IF direct.err # ""
               THEN [bg |-> [b EXCEPT !.d1 = direct.I_input],
                     ret |-> Raise(call, direct.err)]
               ELSE [bg |-> [b EXCEPT !.d1 = direct.I_input, !.d2 = indirect.I_input],
                     ret |-> Raise(call, indirect.err)]

\* reset: I_input of striatum_d1 and striatum_d2 back to 0.0
reset(b) ==
    [bg |-> [b EXCEPT !.d1 = [i \in DOMAIN b.d1 |-> 0],
                      !.d2 = [i \in DOMAIN b.d2 |-> 0]],
     ret |-> Call("reset", "", <<>>, <<>>)]

\* a call on the action selection: the object and the outcome are those of
\* out; calls that write inputs are counted
Select(out, writes) ==
    /\ ret = Idle
    /\ ~writes \/ nops < MaxOps
    /\ bg' = out.bg
    /\ ret' = out.ret
    /\ nops' = IF writes THEN nops + 1 ELSE nops
    /\ UNCHANGED <<pools, vectors, cm, snap, computes, callers, sent, serverVars>>

\* the index lists actions are registered with, one of them with an index
\* outside the group
IndexLists == {<<0>>, <<1, 2>>, <<0, NStriatal>>}
\* the utilities set
Utilities == {Scale \div 2, Scale}

RegisterAction ==
    \E name \in Names, d1 \in IndexLists, d2 \in IndexLists :
        Select(register_action(bg, name, d1, d2), FALSE)

SetActionUtility ==
    \E name \in Names, utility \in Utilities :
        Select(set_action_utility(bg, name, utility), TRUE)

Reset == Select(reset(bg), TRUE)

\* ------------------------------------------------- threads on one encoder
\* The decoders property of the source encoder, one step per thread at a time.
\* pc is where the thread stands, local the matrix _compute_decoders gave it,
\* got the matrix its last access returned.
Step(t, pc, local, got) ==
    callers' = [callers EXCEPT ![t] = [pc |-> pc, local |-> local, got |-> got]]

\* "if self._decoders is None:"
Test(t) ==
    /\ callers[t].pc = "out"
    /\ Step(t, IF pools.src.decoders = <<>> THEN "compute" ELSE "return",
            <<>>, callers[t].got)
    /\ UNCHANGED <<pools, vectors, cm, snap, ret, nops, computes, sent, serverVars, bg>>

\* "self._compute_decoders()": the right-hand side of the assignment
ComputeDecoders(t) ==
    /\ callers[t].pc = "compute"
    /\ \E computed \in DecoderChoices(pools.src) :
        Step(t, "assign", computed, callers[t].got)
    /\ computes' = computes + 1
    /\ UNCHANGED <<pools, vectors, cm, snap, ret, nops, sent, serverVars, bg>>

\* "self._decoders = ...": the assignment
AssignDecoders(t) ==
    /\ callers[t].pc = "assign"
    /\ pools' = [pools EXCEPT !.src.decoders = callers[t].local]
    /\ Step(t, "return", <<>>, callers[t].got)
    /\ UNCHANGED <<vectors, cm, snap, ret, nops, computes, sent, serverVars, bg>>

\* "return self._decoders"; the thread can then read the property again
ReturnDecoders(t) ==
    /\ callers[t].pc = "return"
    /\ Step(t, "out", <<>>, pools.src.decoders)
    /\ UNCHANGED <<pools, vectors, cm, snap, ret, nops, computes, sent, serverVars, bg>>

\* the preferred directions of the two populations: unit rows
SourceRows == [n \in 1..N_NEURONS |-> Axis(((n - 1) % D) + 1)]
TargetRows == [n \in 1..N_NEURONS |-> Unit(IF n % 2 = 1 THEN Ramp ELSE AntiDiag)]

Init ==
    /\ pools = [src |-> NeuralEncoder(SourceRows), tgt |-> NeuralEncoder(TargetRows)]
    /\ vectors = <<>>
    /\ cm = NoCleanup
    /\ snap = <<>>
    /\ ret = Idle
    /\ nops = 0
    /\ computes = 0
    /\ callers = [t \in Threads |-> [pc |-> "out", local |-> <<>>, got |-> <<>>]]
    /\ sp = FALSE
    /\ sent = <<>>
    /\ network = InitialNetwork
    /\ sim = InitialSim
    /\ bg = InitialBasalGanglia

Next ==
    \/ Add \/ Get \/ Bind \/ Unbind \/ Superpose \/ Similarity
    \/ Contains \/ Length \/ Return

Spec == Init /\ [][Next]_vars

\* the vocabulary together with a cleanup memory built over it
NextCleanup ==
    \/ AddConcept \/ Bind \/ Unbind \/ Superpose
    \/ Construct \/ Cleanup \/ FindNearestMatch \/ GetWeights \/ WriteReturned
    \/ Return

SpecCleanup == Init /\ [][NextCleanup]_vars

\* a weight generator over two populations
NextWeights ==
    \/ IdentityWeights \/ BindingWeights \/ UnbindingWeights
    \/ Encode \/ Decode \/ Decoders \/ NewGenerator \/ Return

SpecWeights == Init /\ [][NextWeights]_vars

\* the functions of the module, called on vectors
NextAlgebra ==
    CircularConvolution \/ CircularCorrelation \/ SuperpositionOf \/ CosineSimilarity
    \/ Return

SpecAlgebra == Init /\ [][NextAlgebra]_vars

\* the calls that take a vector against a fixed dimensionality or two or more
\* vectors, on one vocabulary, one cleanup memory and one weight generator
NextDimension ==
    \/ Add \/ Construct \/ Cleanup \/ FindNearestMatch
    \/ Encode \/ Decode \/ BindingWeights \/ UnbindingWeights \/ NewGenerator
    \/ CircularConvolution \/ CircularCorrelation \/ SuperpositionOf \/ CosineSimilarity
    \/ Return

SpecDimension == Init /\ [][NextDimension]_vars

\* threads reading the decoders of one encoder
NextRace ==
    \E t \in Threads :
        Test(t) \/ ComputeDecoders(t) \/ AssignDecoders(t) \/ ReturnDecoders(t)

SpecRace == Init /\ [][NextRace]_vars

\* the constructors of the four classes, over a vocabulary that grows
NextConstruction ==
    \/ AddConcept \/ NewVocabulary \/ NewEncoder \/ Construct \/ NewGenerator
    \/ Return

SpecConstruction == Init /\ [][NextConstruction]_vars

\* the handler of the server on the commands of the semantic pointers
NextServer ==
    \/ EnableSP \/ SpAddVector \/ SpBind \/ SpUnbind \/ SpSimilarity
    \/ SpListVectors \/ SpAddNoise \/ SpCleanup \/ Return

SpecServer == Init /\ [][NextServer]_vars

\* the handler of the server on the commands of the network, and brain_loop
NextNetwork ==
    \/ Pause \/ Play \/ Recreate \/ SetNetworkSize \/ SetNetworkMode
    \/ RunNetwork \/ PushFrame \/ Return

SpecNetwork == Init /\ [][NextNetwork]_vars

\* the action selection of the basal ganglia
NextSelection == RegisterAction \/ SetActionUtility \/ Reset \/ Return

SpecSelection == Init /\ [][NextSelection]_vars

\* ================================================================ claims
VocabularyOps == {"add", "get", "bind", "unbind", "superpose", "similarity"}

(* C1: once a name is stored in the vocabulary the vector under it never
   changes, whatever add / bind / unbind / superpose call is made, and a
   bind / unbind / superpose whose operands exist and whose result_name is
   already present is rejected with an already-exists error. *)
C1_StoredVectorNeverChanges ==
    [][/\ \A i \in 1..Len(vectors) :
            /\ Has(vectors', vectors[i].name)
            /\ Lookup(vectors', vectors[i].name) = vectors[i].vec
       /\ (/\ ret'.op \in {"bind", "unbind", "superpose"}
           /\ Has(vectors, ret'.name)
           /\ ret'.names # <<>>
           /\ \A i \in 1..Len(ret'.names) : Has(vectors, ret'.names[i]))
          => ret'.err = "AlreadyExists"]_vars

(* C10: a vocabulary call that fails leaves the name -> vector mapping as it
   was; get / bind / unbind / superpose / similarity naming an absent entry
   raise not-found, superpose with no names raises invalid-configuration, and
   add with a vector of the wrong length raises dimension-mismatch (already-
   exists when the name is taken, which add checks first). *)
C10_FailedCallLeavesVocabulary ==
    [][ret'.op \in VocabularyOps =>
        /\ ret'.err # "" => vectors' = vectors
        /\ (ret'.op = "get" /\ ~Has(vectors, ret'.name)) => ret'.err = "NotFound"
        /\ (/\ ret'.op \in {"bind", "unbind", "superpose", "similarity"}
            /\ \E i \in 1..Len(ret'.names) : ~Has(vectors, ret'.names[i]))
           => ret'.err = "NotFound"
        /\ (ret'.op = "superpose" /\ ret'.names = <<>>)
           => ret'.err = "InvalidConfiguration"
        /\ (ret'.op = "add" /\ ret'.arg # <<>> /\ Len(ret'.arg) # D)
           => ret'.err = IF Has(vectors, ret'.name) THEN "AlreadyExists"
                         ELSE "DimensionMismatch"]_vars

\* a bind naming an absent operand has failed on a vocabulary that holds an
\* entry, and its result_name is not stored
C10_Witness ==
    /\ ret.op = "bind"
    /\ ret.err = "NotFound"
    /\ Len(vectors) >= 1
    /\ Has(vectors, ret.names[1])
    /\ ~Has(vectors, ret.name)

(* C2: the matrix C that binding_weights builds for a fixed vector v maps
   every x to the unnormalized circular convolution of v and x:
   (C x)[k] = sum_j v[(k - j) mod D] x[j]. *)
C2_BindingMatrixConvolves ==
    (ret.op = "binding_weights" /\ ret.err = "") =>
        \A x \in GenVectors : MatVec(ret.transform, x) = ConvRaw(ret.arg, x)

(* C3: the matrix C' that unbinding_weights builds for a fixed vector v maps
   every x to the unnormalized circular correlation of x with v:
   (C' x)[k] = sum_j x[j] v[(j - k) mod D]. *)
C3_UnbindingMatrixCorrelates ==
    (ret.op = "unbinding_weights" /\ ret.err = "") =>
        \A x \in GenVectors : MatVec(ret.transform, x) = CorrRaw(x, ret.arg)

\* distance test of cleanup between two trajectory points, recomputed
Close(threshold, a, b) ==
    /\ a # NaNVec
    /\ b # NaNVec
    /\ SumSq(Sub(a, b)) < threshold * threshold

\* a cleanup call with return_trajectory=True has returned
CleanupReturned == ret.op = "cleanup" /\ ret.err = "" /\ ret.flag

(* C4: cleanup(..., return_trajectory=True) returns an iteration count n <=
   max_iterations and a trajectory of exactly n + 1 vectors, the first being
   the initial vector and the last the returned cleaned vector. *)
C4_TrajectoryShape ==
    CleanupReturned =>
        /\ ret.num >= 0
        /\ ret.num <= ret.maxit
        /\ Len(ret.traj) = ret.num + 1
        /\ ret.traj[1] = ret.arg
        /\ ret.traj[Len(ret.traj)] = ret.val

\* a cleanup that ran two or more passes and stopped before max_iterations
C4_Witness ==
    /\ CleanupReturned
    /\ ret.num >= 2
    /\ ret.num < ret.maxit
    /\ ret.traj[1] # ret.val

(* C5: when cleanup returns an iteration count n < max_iterations, n >= 1,
   the last two trajectory points are within the threshold of each other and
   no earlier consecutive pair is. *)
C5_StopsAtFirstConvergence ==
    (CleanupReturned /\ ret.num < ret.maxit) =>
        /\ ret.num >= 1
        /\ Close(cm.threshold, ret.traj[ret.num + 1], ret.traj[ret.num])
        /\ \A i \in 1..(ret.num - 1) :
                ~Close(cm.threshold, ret.traj[i + 1], ret.traj[i])

\* a cleanup that converged on its second pass, the first having moved the state
C5_Witness ==
    /\ CleanupReturned
    /\ ret.num = 2
    /\ ret.num < ret.maxit
    /\ ~Close(cm.threshold, ret.traj[2], ret.traj[1])

\* the state after k passes of the settling loop, whatever the threshold
RECURSIVE Iterate(_, _, _)
Iterate(W, noisy_vector, k) ==
    IF k = 0 THEN noisy_vector
    ELSE settle_step(W, noisy_vector, Iterate(W, noisy_vector, k - 1))

\* no pass 1..max_iterations of the loop meets the convergence test
NeverConverges(W, threshold, noisy_vector, max_iterations) ==
    \A k \in 1..max_iterations :
        ~Close(threshold, Iterate(W, noisy_vector, k), Iterate(W, noisy_vector, k - 1))

(* C6: cleanup on a vector of the right dimension never raises and makes at
   most max_iterations passes; if no pass meets the convergence test it
   returns the last iterate and an iteration count equal to max_iterations. *)
C6_NonConvergenceReported ==
    (ret.op = "cleanup" /\ Len(ret.arg) = D) =>
        /\ ret.err = ""
        /\ Len(ret.traj) <= ret.maxit + 1
        /\ NeverConverges(cm.weights, cm.threshold, ret.arg, ret.maxit) =>
            /\ ret.val = Iterate(cm.weights, ret.arg, ret.maxit)
            /\ ret.flag => ret.num = ret.maxit

\* a cleanup of two or more passes none of which converged
C6_Witness ==
    /\ CleanupReturned
    /\ ret.maxit >= 2
    /\ ret.num = ret.maxit
    /\ NeverConverges(cm.weights, cm.threshold, ret.arg, ret.maxit)

\* find_nearest_match has returned for a vector of the vocabulary's dimension
NearestReturned == ret.op = "find_nearest_match" /\ ret.err = "" /\ Len(ret.arg) = D

(* C7: for every vector of the vocabulary's dimension find_nearest_match
   returns (name, s) with name an entry of the vocabulary, s the similarity of
   the vector to that entry, s >= the similarity to every entry, and name the
   earliest entry in insertion order of that similarity. *)
C7_NearestMatchIsMaximizer ==
    NearestReturned =>
        /\ Has(vectors, ret.match)
        /\ \E k \in 1..Len(vectors) :
            /\ vectors[k].name = ret.match
            /\ ret.num = cosine_similarity(ret.arg, vectors[k].vec)
            /\ \A i \in 1..Len(vectors) :
                /\ cosine_similarity(ret.arg, vectors[i].vec) <= ret.num
                /\ i < k => cosine_similarity(ret.arg, vectors[i].vec) < ret.num

\* the matrix the memory was constructed with, from the vocabulary as it was then
WeightsAtConstruction ==
    [i \in Idx |-> [j \in Idx |->
        IF i = j THEN 0
        ELSE SumTo([n \in 1..Len(snap) |-> snap[n].vec[i] * snap[n].vec[j]], Len(snap))]]

(* C8: the weight matrix of a CleanupMemory is the one computed from the
   vocabulary at construction: vocabulary mutations and cleanup /
   find_nearest_match / get_weights calls made later leave it as it was, and
   cleanup uses it and get_weights returns it. *)
C8_WeightsFixedAtConstruction ==
    cm.built =>
        /\ cm.weights = WeightsAtConstruction
        /\ ret.op = "get_weights" => ret.mat = WeightsAtConstruction
        /\ (ret.op = "cleanup" /\ ret.err = "" /\ ret.maxit >= 1 /\ ret.flag)
           => ret.traj[2] = settle_step(WeightsAtConstruction, ret.arg, ret.arg)

\* get_weights returns after the vocabulary has moved away from the one the
\* memory was built from, to one whose weights would differ
C8_Witness ==
    /\ cm.built
    /\ ret.op = "get_weights"
    /\ vectors # snap
    /\ compute_hopfield_weights(vectors) # ret.mat

(* C9: for a non-empty vocabulary the weight matrix W is D x D, is the sum
   over the vocabulary vectors v of outer(v, v) with the diagonal set to zero,
   and so is symmetric with a zero diagonal. *)
C9_HopfieldWeights ==
    cm.built =>
        /\ Len(cm.weights) = D
        /\ \A i \in Idx :
            /\ Len(cm.weights[i]) = D
            /\ cm.weights[i][i] = 0
            /\ \A j \in Idx :
                /\ cm.weights[i][j] = cm.weights[j][i]
                /\ i # j => cm.weights[i][j] =
                    SumTo([n \in 1..Len(snap) |-> snap[n].vec[i] * snap[n].vec[j]],
                          Len(snap))

\* a memory built from two vectors, with a weight that is not zero
C9_Witness ==
    /\ cm.built
    /\ Len(snap) >= 2
    /\ \E i \in Idx, j \in Idx : cm.weights[i][j] # 0

(* C11: add(name, ...) on a name already in the vocabulary fails with an
   already-exists error, with or without a vector and whatever the vector's
   length, and the vocabulary (the entry under the name, the number of
   entries) is as it was. *)
C11_AddDuplicateFails ==
    [][(ret'.op = "add" /\ Has(vectors, ret'.name)) =>
        /\ ret'.err = "AlreadyExists"
        /\ vectors' = vectors
        /\ Len(vectors') = Len(vectors)]_vars

\* add with a vector of a wrong length on a name already taken has failed
\* with already-exists
C11_Witness ==
    /\ ret.op = "add"
    /\ ret.err = "AlreadyExists"
    /\ ret.arg # <<>>
    /\ Len(ret.arg) # D
    /\ Has(vectors, ret.name)

(* C12: the vocabulary only grows: no step removes a name or lowers the
   number of entries; a successful add of a new name raises the number of
   entries by exactly one and makes the name a member; get, similarity, the
   membership test and len change nothing, and the last two report the
   current entries. *)
C12_VocabularyOnlyGrows ==
    [][/\ KeysOf(vectors) \subseteq KeysOf(vectors')
       /\ Len(vectors') >= Len(vectors)
       /\ Cardinality(KeysOf(vectors')) = Len(vectors')
       /\ (ret'.op = "add" /\ ret'.err = "" /\ ~Has(vectors, ret'.name)) =>
            /\ Len(vectors') = Len(vectors) + 1
            /\ Has(vectors', ret'.name)
       /\ ret'.op \in {"get", "similarity", "contains", "len"} => vectors' = vectors
       /\ ret'.op = "contains" => ret'.flag = Has(vectors, ret'.name)
       /\ ret'.op = "len" => ret'.num = Len(vectors)]_vars

\* a second name has been added to a vocabulary that held one entry
C12_Witness ==
    /\ ret.op = "add"
    /\ ret.err = ""
    /\ Len(vectors) = 2
    /\ Has(vectors, ret.name)

\* the calls that read the decoders property of the source encoder
ReadsDecoders(r) ==
    \/ r.op \in {"decoders", "identity_weights"}
    \/ r.op \in {"decode", "binding_weights", "unbinding_weights"} /\ r.err = ""

(* C13: in a single-threaded run on one encoder the decode matrix is absent
   until the first call that reads it, that call computes it (one call of
   _compute_decoders), every later read computes nothing and returns the
   matrix kept since then, which is never replaced, and encode neither
   computes nor stores it. *)
C13_DecodersComputedOnce ==
    [][/\ (pools.src.decoders = <<>>) <=> (computes = 0)
       /\ computes' <= 1
       /\ pools.src.decoders # <<>> => pools'.src.decoders = pools.src.decoders
       /\ ret'.op = "encode" => (pools' = pools /\ computes' = computes)
       /\ ReadsDecoders(ret') =>
            /\ pools'.src.decoders # <<>>
            /\ computes' = IF pools.src.decoders = <<>> THEN computes + 1 ELSE computes
            /\ ret'.op = "decoders" => ret'.mat = pools'.src.decoders
            /\ ret'.op = "identity_weights" =>
                    ret'.mat = MatMul(pools.tgt.encoders, pools'.src.decoders)]_vars

\* the decoders have been read and one computation has been made
C13_Witness ==
    /\ ret.op = "decoders"
    /\ computes = 1
    /\ ret.mat = pools.src.decoders
    /\ ret.mat # <<>>

(* C14: when two threads read the decoders of one encoder at the same time,
   _compute_decoders is called at most once and every read, theirs and any
   later one, returns one and the same matrix. *)
C14_RaceComputesOnce ==
    /\ computes <= 1
    /\ \A t1 \in Threads, t2 \in Threads :
        (callers[t1].got # <<>> /\ callers[t2].got # <<>>)
            => callers[t1].got = callers[t2].got

\* v has L2 norm 1 as far as the grid can tell: within 2 / Scale of 1, the
\* components of a normalized vector being rounded to the grid
IsUnit(v) ==
    /\ (Scale - 2) * (Scale - 2) <= SumSq(v)
    /\ SumSq(v) <= (Scale + 2) * (Scale + 2)

(* C15: for every nonzero vector of the vocabulary's dimension, unit-norm or
   not, and every max_iterations >= 0, the vector cleanup returns has unit L2
   norm. *)
C15_CleanupReturnsUnit ==
    (ret.op = "cleanup" /\ ret.err = "" /\ Len(ret.arg) = D /\ ret.arg # Zero)
        => IsUnit(ret.val)

(* C16: after any add (random or supplied vector), bind, unbind and superpose
   calls every vector stored in the vocabulary has unit L2 norm, except a
   result whose norm before normalization was below the floor (on the grid:
   zero), which is stored as it is. *)
C16_StoredVectorsUnit ==
    /\ \A i \in 1..Len(vectors) :
            IsUnit(vectors[i].vec) \/ vectors[i].vec = Zero
    /\ (ret.op = "add" /\ ret.err = "" /\ ret.arg # <<>> /\ ret.arg # Zero)
            => IsUnit(Lookup(vectors, ret.name))

\* a vector that was not unit has been added and a second entry has been
\* derived from it by bind, unbind or superpose
C16_Witness ==
    /\ ret.op \in {"bind", "unbind", "superpose"}
    /\ ret.err = ""
    /\ Len(vectors) = 2
    /\ ret.val = Lookup(vectors, ret.name)
    /\ IsUnit(ret.val)
    /\ \E i \in 1..Len(vectors) : vectors[i].vec = Unit(Ramp)

\* circular_convolution has returned
ConvolutionReturned == ret.op = "circular_convolution" /\ ret.err = ""

(* C17: bind is commutative: for vectors a and b of equal length the
   unnormalized circular convolution has conv(a, b)[k] = conv(b, a)[k] at
   every index k, and circular_convolution(a, b) and circular_convolution(b, a)
   are the same vector (their similarity is above 0.99 of its squared norm). *)
C17_BindCommutes ==
    ConvolutionReturned =>
        LET a == ret.args[1]
            b == ret.args[2]
            swapped == circular_convolution(b, a)
        IN /\ \A k \in 1..Len(a) : ConvRaw(a, b)[k] = ConvRaw(b, a)[k]
           /\ ret.val = swapped
           /\ MaxAbs(ret.val) > 0 =>
                100 * cosine_similarity(ret.val, swapped) > 99 * SumSq(ret.val)

\* two different unit vectors of dimension D have been bound, to a vector that
\* is neither of them
C17_Witness ==
    /\ ConvolutionReturned
    /\ ret.args[1] = Unit(Ramp)
    /\ ret.args[2] = Unit(Diag)
    /\ IsUnit(ret.val)
    /\ ret.val # ret.args[1]
    /\ ret.val # ret.args[2]

(* C18: for unit vectors a and b of dimension 50 or more, unbinding
   bind(a, b) with the key b gives a vector whose similarity to a is above
   0.6. *)
C18_RoundTripRecovers ==
    (/\ ConvolutionReturned
     /\ Len(ret.args[1]) >= DefaultDim
     /\ IsUnit(ret.args[1])
     /\ IsUnit(ret.args[2]))
        => 10 * cosine_similarity(circular_correlation(ret.val, ret.args[2]), ret.args[1])
                > 6 * Scale * Scale

(* C19: for vectors a and b of equal length, unit or not, cosine_similarity
   returns a score in [-1, 1] (to the grid's accuracy), and
   cosine_similarity(a, b) = cosine_similarity(b, a). *)
C19_SimilarityInRange ==
    (ret.op = "cosine_similarity" /\ ret.err = "") =>
        /\ ret.num <= (Scale + 2) * (Scale + 2)
        /\ ret.num >= 0 - (Scale + 2) * (Scale + 2)
        /\ ret.num = cosine_similarity(ret.args[2], ret.args[1])

\* the lengths handed to call r disagree, g being the weight generator
LengthsDisagree(r, g) ==
    \/ /\ r.op \in {"circular_convolution", "circular_correlation", "cosine_similarity"}
       /\ Len(r.args[1]) # Len(r.args[2])
    \/ /\ r.op = "superposition"
       /\ \E i \in 2..Len(r.args) : Len(r.args[i]) # Len(r.args[1])
    \/ /\ r.op = "add"
       /\ r.arg # <<>>
       /\ Len(r.arg) # D
    \/ /\ r.op \in {"encode", "binding_weights", "unbinding_weights"}
       /\ Len(r.arg) # g.src.dim
    \/ /\ r.op = "decode"
       /\ Len(r.arg) # g.src.n_neurons
    \/ /\ r.op \in {"cleanup", "find_nearest_match"}
       /\ Len(r.arg) # D
    \/ /\ r.op = "SemanticWeightGenerator"
       /\ r.arg[1] # r.arg[2]

\* call r raised a dimension mismatch and returned nothing
Rejected(r) ==
    /\ r.err = "DimensionMismatch"
    /\ r.val = <<>>
    /\ r.num = 0
    /\ r.match = ""
    /\ r.traj = <<>>
    /\ r.mat = <<>>
    /\ r.transform = <<>>

(* C20, as stated: every public operation that takes two or more vectors, or
   a vector against a fixed dimensionality (the four functions of the algebra,
   add, encode, decode, binding_weights, unbinding_weights, cleanup,
   find_nearest_match and the construction of a weight generator), raises a
   dimension mismatch whenever the lengths disagree, returns nothing and
   changes no state. *)
C20_MismatchAlwaysRejected ==
    [][LengthsDisagree(ret', pools) =>
        /\ Rejected(ret')
        /\ UNCHANGED <<pools, vectors, cm, snap, computes, sent, serverVars, bg>>]_vars

(* C20, amended: as stated, except that add with a vector of a wrong length
   on a name already in the vocabulary raises already-exists, the name being
   checked before the length; that call too returns nothing and changes no
   state. *)
C20_MismatchRejectedUnlessNameTaken ==
    [][LengthsDisagree(ret', pools) =>
        /\ UNCHANGED <<pools, vectors, cm, snap, computes, sent, serverVars, bg>>
        /\ ret'.val = <<>>
        /\ IF ret'.op = "add" /\ Has(vectors, ret'.name)
           THEN ret'.err = "AlreadyExists"
           ELSE Rejected(ret')]_vars

\* decode has rejected firing rates of a wrong length on an encoder whose
\* decoders are still not computed
C20_Witness ==
    /\ ret.op = "decode"
    /\ ret.err = "DimensionMismatch"
    /\ Len(ret.arg) # pools.src.n_neurons
    /\ pools.src.decoders = <<>>
    /\ computes = 0

\* a constructor call whose arguments break a rule of construction: a
\* dimensionality below 2, fewer than 1 neuron, an empty vocabulary or a
\* threshold that is not positive, encoders of different dimensionality
BadConstruction(r) ==
    \/ r.op = "SemanticVocabulary" /\ r.arg[1] < 2
    \/ r.op = "NeuralEncoder" /\ (r.arg[1] < 1 \/ r.arg[2] < 2)
    \/ r.op = "CleanupMemory" /\ (Len(vectors) = 0 \/ r.arg[1] <= 0)
    \/ r.op = "SemanticWeightGenerator" /\ r.arg[1] # r.arg[2]

(* C21: a constructor call that breaks a rule of construction (SemanticVocabulary
   with dimensionality < 2, NeuralEncoder with n_neurons < 1 or dimensionality
   < 2, CleanupMemory over an empty vocabulary or with threshold <= 0,
   SemanticWeightGenerator over encoders of different dimensionality) raises,
   makes no object, computes no matrix and touches no vocabulary. *)
C21_BadConstructionRejected ==
    [][(ret = Idle /\ BadConstruction(ret')) =>
          /\ ret'.err \in {"InvalidConfiguration", "DimensionMismatch"}
          /\ ret'.mat = <<>>
          /\ ret'.val = <<>>
          /\ ret'.num = 0
          /\ UNCHANGED <<vectors, cm, snap, pools, computes>>]_vars

\* a CleanupMemory was asked for over a vocabulary that is not empty, with a
\* threshold that is not positive, and was refused
C21_Witness ==
    /\ ret.op = "CleanupMemory"
    /\ ret.arg[1] <= 0
    /\ Len(vectors) > 0
    /\ ret.err = "InvalidConfiguration"
    /\ ~cm.built

(* C22: get_weights hands out a copy: whatever the caller writes into the
   matrix it was given, the weight matrix of the cleanup memory stays the one
   computed at construction, so cleanup and later get_weights calls see no
   change. *)
C22_ReturnedCopyIsDetached ==
    /\ cm.built => cm.weights = compute_hopfield_weights(snap)
    /\ ret.op = "write" => ret.mat # cm.weights

\* the caller has written into the matrix get_weights gave it
C22_Witness ==
    /\ ret.op = "write"
    /\ cm.built
    /\ ret.mat[1] = [j \in 1..D |-> Scale]
    /\ cm.weights[1] # ret.mat[1]

(* C23: switching the network mode keeps the neuron count: the neuronCount
   reported after setNetworkMode is NUM in realistic mode as in simple mode,
   for every NUM setNetworkSize accepts. *)
C23_ModeSwitchKeepsCount ==
    (ret.op = "setNetworkMode" /\ sent = <<"networkModeChanged">>) =>
        /\ ret.num = network.NUM
        /\ get_neuron_count(network) = network.NUM

\* tanh(W @ x) has a norm below the floor (on the grid: zero)
Degenerate(W, x) ==
    /\ x # NaNVec
    /\ Norm([i \in Idx |-> Tanh(TDiv(MatVec(W, x)[i], Scale * Scale))]) = 0

\* the input of a cleanup call, renormalized, is the vector v
RenormalizedInput(v) ==
    /\ v # NaNVec
    /\ v = Unit(ret.arg)

(* C24: whenever tanh(W x_t) has a norm below the floor, the next iterate of
   cleanup is the input vector renormalized and no exception is raised; when W
   is the zero matrix and max_iterations >= 2, cleanup reports convergence
   after at most 2 iterations and returns the renormalized input. *)
C24_DegenerateStateRecovers ==
    CleanupReturned =>
        /\ \A t \in 1..(Len(ret.traj) - 1) :
                Degenerate(cm.weights, ret.traj[t]) => RenormalizedInput(ret.traj[t + 1])
        /\ (cm.weights = [i \in Idx |-> Zero] /\ ret.maxit >= 2) =>
                /\ ret.num <= 2
                /\ Close(cm.threshold, ret.traj[ret.num + 1], ret.traj[ret.num])
                /\ RenormalizedInput(ret.val)

(* C26: when cleanup returns an iteration count equal to max_iterations (with
   max_iterations >= 1), the convergence test failed on every one of the
   max_iterations passes, the last included: no two consecutive trajectory
   points are within the threshold of each other. *)
C26_FullCountMeansNoConvergence ==
    (CleanupReturned /\ ret.maxit >= 1 /\ ret.num = ret.maxit) =>
        \A i \in 1..ret.maxit : ~Close(cm.threshold, ret.traj[i + 1], ret.traj[i])

(* C25: find_nearest_match matches against the vocabulary the cleanup memory
   was built from only: in the spCleanup flow of the server the nearestMatch
   reported is a name that was in the vocabulary when the memory was
   constructed (or none), never the result just stored or a name added
   later. *)
C25_NearestMatchFromSnapshot ==
    (ret.op = "spCleanup" /\ sent = <<"spCleanup">>) =>
        /\ ret.match # ret.name
        /\ ret.match = "" \/ Has(snap, ret.match)

\* the commands of the semantic pointers that need the global sp
SPCommands ==
    {"spAddVector", "spBind", "spUnbind", "spSimilarity", "spListVectors",
     "spAddNoise", "spCleanup"}

(* C27: while sp is None each of spAddVector, spBind, spUnbind, spSimilarity,
   spListVectors, spAddNoise and spCleanup sends the client one error message
   and makes or changes no vocabulary, encoder pool or cleanup memory; only
   enableSP makes the SemanticPointer. *)
C27_DisabledCommandsOnlyReport ==
    [][/\ (~sp /\ ret = Idle /\ ret'.op \in SPCommands) =>
            /\ sent' = <<"error">>
            /\ UNCHANGED <<sp, vectors, cm, snap, pools>>
       /\ sp' # sp => ret'.op = "enableSP"]_vars

\* a spCleanup was sent before any enableSP and answered with an error
C27_Witness ==
    /\ ~sp
    /\ ret.op = "spCleanup"
    /\ sent = <<"error">>
    /\ vectors = <<>>
    /\ ~cm.built

(* C28: once SP mode is enabled every SP command is answered with exactly one
   message to the sender, a success reply or an error reply, also when the
   core raises already-exists or not-found or a required field is missing. *)
C28_OneReplyPerCommand ==
    [][(sp /\ ret = Idle /\ ret'.op \in SPCommands \cup {"enableSP"}) =>
            Len(sent') = 1]_vars

(* C29: every spike recorded by the active spike monitor is reported in exactly
   one frame that brain_loop puts on the queue, in any interleaving with the
   commands that recreate the network: of the spikes the monitor held when
   brain_loop last sliced it, none was skipped and none reported twice. *)
C29_EverySpikeReportedOnce ==
    \A k \in 1..sim.seen : sim.reported[k] = 1

\* the indices of the list indices
Members(indices) == {indices[k] : k \in 1..Len(indices)}

(* C30: set_action_utility on a name that is not registered raises KeyError and
   changes no striatal input; on a registered action it changes I_input of
   that action's registered D1 and D2 indices only: the input of every other
   neuron and the registered actions stay as they were. *)
C30_UtilityTouchesOwnPoolOnly ==
    [][(ret = Idle /\ ret'.op = "set_action_utility") =>
          IF ~Has(bg.action_pools, ret'.name)
          THEN ret'.err = "NotFound" /\ bg' = bg
          ELSE LET pool == Lookup(bg.action_pools, ret'.name)
               IN /\ ret'.err # "NotFound"
                  /\ bg'.action_pools = bg.action_pools
                  /\ \A i \in DOMAIN bg.d1 \ Members(pool[1]) : bg'.d1[i] = bg.d1[i]
                  /\ \A i \in DOMAIN bg.d2 \ Members(pool[2]) : bg'.d2[i] = bg.d2[i]
                  /\ DOMAIN bg'.d1 = DOMAIN bg.d1
                  /\ DOMAIN bg'.d2 = DOMAIN bg.d2]_vars

\* the utility of one of two registered actions was set: the inputs of its
\* neurons were written and a neuron of the other action kept its input
C30_Witness ==
    /\ ret.op = "set_action_utility"
    /\ ret.err = ""
    /\ Len(bg.action_pools) = 2
    /\ LET pool == Lookup(bg.action_pools, ret.name)
       IN /\ \A i \in Members(pool[1]) : bg.d1[i] = RDiv(ret.arg[1] * 5, 10)
          /\ \A i \in Members(pool[2]) : bg.d2[i] = RDiv((Scale - ret.arg[1]) * 3, 10)
          /\ \E i \in DOMAIN bg.d1 \ Members(pool[1]) : bg.d1[i] = 0
====
